---- MODULE Spec2Model ----
(***************************************************************************)
(* Candle ingestion scripts of CryptoScreener (patch_opt.ps1):            *)
(*   binance_to_db_opt.py      single-stream backfill                     *)
(*   multi_symbols_to_db_opt.py  thread-pool backfill over SYMBOLS        *)
(*   minute_daemon_multi_opt.py  once-a-minute tail of the latest candle  *)
(* together with the dashboard's run controls (StatusTable.tsx).          *)
(*                                                                         *)
(* Time is counted in whole minutes: `now` is int(time.time()) // 60, and *)
(* a candle's ts is its bucket start in the same unit.  The return of a   *)
(* fetch and the trim_incomplete that follows it read the clock in the    *)
(* same minute.  Batch size, pool size and retry count are scaled down.   *)
(*                                                                         *)
(* Specifications: Spec (the two backfill scripts), SpecDaemon (the       *)
(* minute daemon beside the single-stream script), SpecUpsert (a batch    *)
(* written twice), SpecRate (the limiter in front of the exchange         *)
(* client), SpecControl (the dashboard's run controls), SpecRetry (one    *)
(* call of fetch_with_retry with the script's own constants), SpecTx (one *)
(* batch write, statement by statement), SpecCancel (the thread-pool      *)
(* backfill beside the start/stop endpoints), SpecPanel (the two start    *)
(* forms), SpecStore (statusStore), SpecGaps (find_gaps), SpecFlush (the  *)
(* dashboard's flushDB), SpecControls (the Controls start/stop toggle),   *)
(* SpecFlag (the ingestion_control router and its clients), SpecVm (the   *)
(* status fetches of useStatusViewModel), SpecStream (its status socket), *)
(* SpecCoverage (CoverageViewModel), SpecSettings (the StatusTable        *)
(* settings), SpecMerge (one call of mergeRow).                           *)
(***************************************************************************)
EXTENDS Integers, Sequences, FiniteSets, TLC

\* ---------------------------------------------------------------- bounds
\* last minute the clock reaches
MaxNow == 4
\* candles per request (the scripts use 500 and 1000)
LIMIT == 2
\* thread-pool size (the script uses 12 for 10 symbols)
MAX_CONCURRENCY == 2
\* iterations of fetch_with_retry's loop (the script has range(4))
RetryRange == 2

\* rows per batch written twice
MaxBatch == 2
\* ticks per second of the limiter's clock
TicksPerSecond == 2
\* requests_per_second
RequestsPerSecond == 2
\* last tick the limiter's clock reaches
MaxTick == 4
\* control requests awaiting their response
MaxPending == 3
\* comma-separated pieces of the symbols text
MaxPieces == 2
\* start requests sent from one form
MaxRuns == 1
\* latest timestamp of a status update
MaxStamp == 2
\* buckets of the window find_gaps is asked about
MaxGapBuckets == 9

\* ingestion_control: clients sending requests, messages published
MaxClients == 2
MaxPublished == 3
\* Controls: status polls in flight
MaxPolls == 2
\* useStatusViewModel: fetchStatus calls, WebSockets created
MaxFetches == 3
MaxSockets == 2
\* CoverageViewModel: fetchOnce calls
MaxCoverageFetches == 4

\* ------------------------------------------------------ program constants
\* the SYMBOLS list of the scripts, cut to three symbols
SymbolList == <<"BTC/USDT", "ETH/USDT", "BNB/USDT">>
SYMBOLS == {SymbolList[i] : i \in 1..Len(SymbolList)}
SYMBOL == "BTC/USDT"
TF == "1m"
TIMEFRAMES == {"1m", "5m"}

\* bucket length per timeframe, in minutes
secmap(tf) == IF tf = "1m" THEN 1 ELSE 5

VARIABLES
    now,        \* wall clock, minutes
    db,         \* table candles: set of rows [symbol, timeframe, ts, final]
    runPc,      \* multi_symbols main: "idle" | "running" | "done"
    wpc,        \* per symbol, position of its fetch_one future
    attempts,   \* per symbol, failed iterations of fetch_with_retry's loop
    since,      \* per symbol, the since read by fetch_one (0 before it is read)
    data,       \* per symbol, data[sym] of main (fetch_one's trimmed rows)
    how,        \* per symbol, how fetch_with_retry ended: "none" | "ok" | "exhausted"
    runStart,   \* clock when the current run started
    idx,        \* minute_daemon: idx
    lastWake,   \* minute_daemon: minute of the last loop iteration
    uDb,        \* write-twice harness: the table
    uOp,        \* write-twice harness: "insert_rows" | "insert_all"
    uBatch,     \* write-twice harness: the rows, per symbol
    uStep,      \* write-twice harness: writes done
    uFirst,     \* write-twice harness: the table after the first write
    uAdded,     \* write-twice harness: return value of each write
    tick,       \* limiter clock
    calls,      \* ticks at which ex.fetch_ohlcv was called, in order
    waiting,    \* workers blocked in the limiter
    dashboardState, \* StatusTable: dashboardState
    pendingCtl,     \* StatusTable: control requests awaiting their response
    useMock,        \* StatusTable: USE_MOCK
    serverState,    \* run state held behind POST /api/control
    retry,      \* fetch_with_retry: one call's frame and what the exchange does
    tx,         \* insert_rows / insert_all: one database transaction
    running,    \* ingestion_control: the Redis key ingestion_running
    panel,      \* IngestionPanel / the dashboard's start form
    store,      \* statusStore: rows and lastUpdated
    gaps,       \* GapDetector: one find_gaps call
    flush,      \* dashboard: one flushDB call and its requests
    controls,   \* Controls: displayed state, polls and toggle in flight
    api,        \* ingestion_control: channel ingestion_state and clients
    vm,         \* useStatusViewModel: fetchStatus requests
    stream,     \* useStatusViewModel: the status WebSocket effect
    cov,        \* CoverageViewModel: timer, snapshot, fetches
    settings,   \* StatusTable: the settings applySettings stored
    merge       \* statusStore: one mergeRow call

ingestVars == <<now, db, runPc, wpc, attempts, since, data, how,
                runStart, idx, lastWake>>

upsertVars == <<uDb, uOp, uBatch, uStep, uFirst, uAdded>>
rateVars == <<tick, calls, waiting>>
ctlVars == <<dashboardState, pendingCtl, useMock, serverState>>

unitVars == <<retry, tx, running, panel, store, gaps>>

viewVars == <<flush, controls, api, vm, stream, cov, settings, merge>>

vars == <<ingestVars, upsertVars, rateVars, ctlVars, unitVars, viewVars>>

\* ---------------------------------------------------------------- helpers
Min(S) == CHOOSE x \in S : \A y \in S : x <= y
Max(S) == CHOOSE x \in S : \A y \in S : x >= y

RECURSIVE SortedSeq(_)
SortedSeq(S) == IF S = {} THEN <<>> ELSE <<Min(S)>> \o SortedSeq(S \ {Min(S)})

Take(s, n) == IF Len(s) <= n THEN s ELSE SubSeq(s, 1, n)
LastN(s, n) == IF Len(s) <= n THEN s ELSE SubSeq(s, Len(s) - n + 1, Len(s))

\* Python slice s[i:j] with 0 <= i <= j
Slice(s, i, j) == SubSeq(s, i + 1, IF j <= Len(s) THEN j ELSE Len(s))

Range(s) == {s[i] : i \in DOMAIN s}

\* ------------------------------------------------------- exchange client
\* ex.fetch_ohlcv(sym, timeframe=tf, limit=limit, since=since) answered at
\* minute T: candles in ascending order, the bucket containing T last; with
\* since the first `limit` candles from since on, without it (0 stands for
\* None) the latest `limit`.  final: the bucket had elapsed when the call was
\* answered, i.e. its start is below T - (T mod cadence).
Candle(b, tf, T) == [ts |-> b, final |-> b < T - (T % secmap(tf))]

Buckets(tf, T) == {b \in 1..T : b % secmap(tf) = 0}

fetch_ohlcv(tf, limit, snc, T) ==
    LET all  == SortedSeq(Buckets(tf, T))
        from == SelectSeq(all, LAMBDA b : b >= snc)
        pick == IF snc = 0 THEN LastN(all, limit) ELSE Take(from, limit)
    IN  [i \in 1..Len(pick) |-> Candle(pick[i], tf, T)]

\* ----------------------------------------------------------------- store
HasKey(d, sym, tf, ts) ==
    \E r \in d : r.symbol = sym /\ r.timeframe = tf /\ r.ts = ts

last_ts_from_db(d, sym, tf) ==
    LET ts == {r.ts : r \in {x \in d : x.symbol = sym /\ x.timeframe = tf}}
    IN  IF ts = {} THEN 0 ELSE Max(ts)

\* variant: ON CONFLICT ... DO UPDATE, which counts the row again
InsertRowOverwrite(d, sym, tf, row) ==
    [db |-> {r \in d : ~(r.symbol = sym /\ r.timeframe = tf /\ r.ts = row.ts)}
            \cup {[symbol |-> sym, timeframe |-> tf,
                   ts |-> row.ts, final |-> row.final]},
     added |-> 1]

\* variant: the stream's rows are deleted before the row is inserted
InsertRowReplace(d, sym, tf, row) ==
    [db |-> {r \in d : ~(r.symbol = sym /\ r.timeframe = tf)}
            \cup {[symbol |-> sym, timeframe |-> tf,
                   ts |-> row.ts, final |-> row.final]},
     added |-> 1]

\* variant: a plain INSERT into a table without the primary key
InsertRowDuplicate(d, sym, tf, row) ==
    [db |-> d \cup {[symbol |-> sym, timeframe |-> tf,
                     ts |-> row.ts, final |-> row.final]},
     added |-> 1]

\* INSERT ... ON CONFLICT (symbol,timeframe,ts) DO NOTHING; cur.rowcount
InsertRow(d, sym, tf, row) ==
    IF HasKey(d, sym, tf, row.ts)
    THEN [db |-> d, added |-> 0]
    ELSE [db |-> d \cup {[symbol |-> sym, timeframe |-> tf,
                          ts |-> row.ts, final |-> row.final]},
          added |-> 1]

RECURSIVE InsertSeq(_, _, _, _)
InsertSeq(d, sym, tf, rows) ==
    IF rows = <<>> THEN [db |-> d, added |-> 0]
    ELSE LET one  == InsertRow(d, sym, tf, Head(rows))
             rest == InsertSeq(one.db, sym, tf, Tail(rows))
         IN  [db |-> rest.db, added |-> one.added + rest.added]

insert_rows(d, rows) == InsertSeq(d, SYMBOL, TF, rows)

RECURSIVE InsertDict(_, _, _)
InsertDict(d, dict, syms) ==
    IF syms = {} THEN [db |-> d, added |-> 0]
    ELSE LET sym  == CHOOSE s \in syms : TRUE
             one  == InsertSeq(d, sym, TF, dict[sym])
             rest == InsertDict(one.db, dict, syms \ {sym})
         IN  [db |-> rest.db, added |-> one.added + rest.added]

insert_all(d, dict) == InsertDict(d, dict, DOMAIN dict)

insert_one(d, sym, tf, row) ==
    IF row = <<>> THEN [db |-> d, added |-> 0]
    ELSE InsertRow(d, sym, tf, row[Len(row)])

\* ------------------------------------------------------- trim_incomplete
trim_incomplete(rows, tf, T) ==
    LET sec               == secmap(tf)
        current_bar_start == T - (T % sec)
        cutoff            == current_bar_start - 1
    IN  SelectSeq(rows, LAMBDA r : r.ts <= cutoff)

\* ------------------------------------------------------------------ Init
IngestInit ==
    /\ now = 1
    /\ db = {}
    /\ runPc = "idle"
    /\ wpc = [s \in SYMBOLS |-> "pending"]
    /\ attempts = [s \in SYMBOLS |-> 0]
    /\ since = [s \in SYMBOLS |-> 0]
    /\ data = [s \in SYMBOLS |-> <<>>]
    /\ how = [s \in SYMBOLS |-> "none"]
    /\ runStart = 0
    /\ idx = 0
    /\ lastWake = 0

\* ------------------------------------------------------ the wall clock
Tick ==
    /\ now < MaxNow
    /\ now' = now + 1
    /\ UNCHANGED <<db, runPc, wpc, attempts, since, data, how,
                   runStart, idx, lastWake>>
    /\ UNCHANGED <<upsertVars, rateVars, ctlVars, unitVars, viewVars>>

\* ------------------------------------------- multi_symbols_to_db_opt.py
\* main: data = {}, the pool is created and every fetch_one is submitted
StartRun ==
    /\ runPc \in {"idle", "done"}
    /\ runPc' = "running"
    /\ wpc' = [s \in SYMBOLS |-> "pending"]
    /\ attempts' = [s \in SYMBOLS |-> 0]
    /\ since' = [s \in SYMBOLS |-> 0]
    /\ data' = [s \in SYMBOLS |-> <<>>]
    /\ how' = [s \in SYMBOLS |-> "none"]
    /\ runStart' = now
    /\ UNCHANGED <<now, db, idx, lastWake>>
    /\ UNCHANGED <<upsertVars, rateVars, ctlVars, unitVars, viewVars>>

\* futures whose fetch_one occupies a pool thread
Busy == {s \in SYMBOLS : wpc[s] \in {"inflight", "sleeping"}}

\* futures inside ex.fetch_ohlcv
InFlight == {s \in SYMBOLS : wpc[s] = "inflight"}

\* variant: the pool starts one thread too many
PoolOffByOne == Cardinality(Busy) <= MAX_CONCURRENCY

\* ThreadPoolExecutor(max_workers=MAX_CONCURRENCY)
PoolHasFreeThread == Cardinality(Busy) < MAX_CONCURRENCY

\* a pool thread takes a submitted fetch_one: it reads since and enters
\* fetch_with_retry, whose first iteration calls ex.fetch_ohlcv
WorkerStart(s) ==
    /\ runPc = "running"
    /\ wpc[s] = "pending"
    /\ PoolHasFreeThread
    /\ since' = [since EXCEPT ![s] = last_ts_from_db(db, s, TF)]
    /\ wpc' = [wpc EXCEPT ![s] = "inflight"]
    /\ UNCHANGED <<now, db, runPc, attempts, data, how,
                   runStart, idx, lastWake>>
    /\ UNCHANGED <<upsertVars, rateVars, ctlVars, unitVars, viewVars>>

\* the call returns rows: fetch_with_retry returns them, fetch_one returns
\* (sym, trim_incomplete(rows, tf)) and main stores data[sym]
ReturnOk(s) ==
    /\ wpc[s] = "inflight"
    /\ data' = [data EXCEPT ![s] =
                   trim_incomplete(fetch_ohlcv(TF, LIMIT, since[s], now), TF, now)]
    /\ how' = [how EXCEPT ![s] = "ok"]
    /\ wpc' = [wpc EXCEPT ![s] = "done"]
    /\ attempts' = [attempts EXCEPT ![s] = 0]
    /\ UNCHANGED <<now, db, runPc, since, runStart, idx, lastWake>>
    /\ UNCHANGED <<upsertVars, rateVars, ctlVars, unitVars, viewVars>>

\* what fetch_with_retry returns once its loop has run out
Exhausted == <<>>

\* the call raises: the handler sleeps and doubles the delay
Raise(s) ==
    /\ wpc[s] = "inflight"
    /\ attempts' = [attempts EXCEPT ![s] = @ + 1]
    /\ wpc' = [wpc EXCEPT ![s] = "sleeping"]
    /\ UNCHANGED <<now, db, runPc, since, data, how,
                   runStart, idx, lastWake>>
    /\ UNCHANGED <<upsertVars, rateVars, ctlVars, unitVars, viewVars>>

\* after the sleep: the next iteration calls again
RetryCall(s) ==
    /\ wpc[s] = "sleeping"
    /\ attempts[s] < RetryRange
    /\ wpc' = [wpc EXCEPT ![s] = "inflight"]
    /\ UNCHANGED <<now, db, runPc, attempts, since, data, how,
                   runStart, idx, lastWake>>
    /\ UNCHANGED <<upsertVars, rateVars, ctlVars, unitVars, viewVars>>

\* after the sleep, the loop has run out: return [], which fetch_one trims
\* and main stores as data[sym]
GiveUp(s) ==
    /\ wpc[s] = "sleeping"
    /\ attempts[s] >= RetryRange
    /\ data' = [data EXCEPT ![s] = trim_incomplete(Exhausted, TF, now)]
    /\ how' = [how EXCEPT ![s] = "exhausted"]
    /\ wpc' = [wpc EXCEPT ![s] = "done"]
    /\ attempts' = [attempts EXCEPT ![s] = 0]
    /\ UNCHANGED <<now, db, runPc, since, runStart, idx, lastWake>>
    /\ UNCHANGED <<upsertVars, rateVars, ctlVars, unitVars, viewVars>>

\* variant: main goes on after the first completed future
SomeFutureDone == \E s \in SYMBOLS : wpc[s] = "done"

\* `for f in as_completed(futs)` has seen every future
AllFuturesDone == \A s \in SYMBOLS : wpc[s] = "done"

\* insert_all(data) in one transaction, then the summary is printed
InsertAll ==
    /\ runPc = "running"
    /\ AllFuturesDone
    /\ db' = insert_all(db, data).db
    /\ runPc' = "done"
    /\ UNCHANGED <<now, wpc, attempts, since, data, how,
                   runStart, idx, lastWake>>
    /\ UNCHANGED <<upsertVars, rateVars, ctlVars, unitVars, viewVars>>

\* ------------------------------------------------- binance_to_db_opt.py
\* main: fetch_bulk (since read from the table), trim_incomplete,
\* insert_rows.  An exception of the call ends the script with nothing
\* written.
fetch_bulk(d, T) ==
    LET snc == last_ts_from_db(d, SYMBOL, TF)
    IN  fetch_ohlcv(TF, LIMIT, snc, T)

RunSingle ==
    /\ db' = insert_rows(db, trim_incomplete(fetch_bulk(db, now), TF, now)).db
    /\ db' # db
    /\ UNCHANGED <<now, runPc, wpc, attempts, since, data, how,
                   runStart, idx, lastWake>>
    /\ UNCHANGED <<upsertVars, rateVars, ctlVars, unitVars, viewVars>>

\* -------------------------------------------- minute_daemon_multi_opt.py
BATCH == Len(SymbolList)

\* one pair of the inner loops: rows = fetch_ohlcv(limit=1), or [] when
\* the call raised; then insert_one
DaemonRows(pair, failed, T) ==
    IF pair \in failed THEN <<>> ELSE fetch_ohlcv(pair[2], 1, 0, T)

RECURSIVE DaemonInsert(_, _, _, _)
DaemonInsert(d, pairs, failed, T) ==
    IF pairs = <<>> THEN d
    ELSE DaemonInsert(
             insert_one(d, Head(pairs)[1], Head(pairs)[2],
                        DaemonRows(Head(pairs), failed, T)).db,
             Tail(pairs), failed, T)

RECURSIVE PairsOf(_, _)
PairsOf(syms, tfs) ==
    IF syms = <<>> THEN <<>>
    ELSE [i \in 1..Len(tfs) |-> <<Head(syms), tfs[i]>>] \o PairsOf(Tail(syms), tfs)

\* one iteration of the loop, entered at a minute boundary
DaemonWake ==
    /\ lastWake < now
    /\ LET now_min    == now
           do_5m      == now_min % 5 = 0
           tfs        == <<"1m">> \o (IF do_5m THEN <<"5m">> ELSE <<>>)
           first      == Slice(SymbolList, idx, idx + BATCH)
           idx0       == IF first = <<>> THEN 0 ELSE idx
           batch_syms == Slice(SymbolList, idx0, idx0 + BATCH)
           pairs      == PairsOf(batch_syms, tfs)
       IN  /\ idx' = idx0 + BATCH
           /\ \E failed \in SUBSET Range(pairs) :
                  db' = DaemonInsert(db, pairs, failed, now)
    /\ lastWake' = now
    /\ UNCHANGED <<now, runPc, wpc, attempts, since, data, how, runStart>>
    /\ UNCHANGED <<upsertVars, rateVars, ctlVars, unitVars, viewVars>>

\* ------------------------------------------------- writing a batch twice
\* insert_rows(rows) or insert_all(data), called twice with the same rows
\* on any table
UpsertSyms == {SymbolList[1], SymbolList[2]}
UpsertTs == 1..2
UpsertRow == [ts : UpsertTs, final : BOOLEAN]
UpsertSeqs == UNION {[1..k -> UpsertRow] : k \in 0..MaxBatch}

RECURSIVE TotalLen(_, _)
TotalLen(dict, syms) ==
    IF syms = {} THEN 0
    ELSE LET sym == CHOOSE s \in syms : TRUE
         IN  Len(dict[sym]) + TotalLen(dict, syms \ {sym})

UpsertTables ==
    {d \in SUBSET [symbol : UpsertSyms, timeframe : {TF},
                   ts : UpsertTs, final : BOOLEAN] :
        \A r1, r2 \in d :
            (r1.symbol = r2.symbol /\ r1.ts = r2.ts) => r1 = r2}

UpsertWrite(d) ==
    IF uOp = "insert_rows" THEN insert_rows(d, uBatch[SYMBOL])
    ELSE insert_all(d, uBatch)

UpsertInit ==
    /\ uOp \in {"insert_rows", "insert_all"}
    /\ uDb \in UpsertTables
    /\ uBatch \in IF uOp = "insert_rows"
                  THEN [{SYMBOL} -> UpsertSeqs]
                  ELSE {dict \in [UpsertSyms -> UpsertSeqs] :
                            TotalLen(dict, UpsertSyms) <= MaxBatch}
    /\ uStep = 0
    /\ uFirst = {}
    /\ uAdded = <<>>

UpsertIdle ==
    /\ uOp = "insert_rows"
    /\ uDb = {}
    /\ uBatch = <<>>
    /\ uStep = 0
    /\ uFirst = {}
    /\ uAdded = <<>>

UpsertFirst ==
    /\ uStep = 0
    /\ uDb' = UpsertWrite(uDb).db
    /\ uFirst' = UpsertWrite(uDb).db
    /\ uAdded' = <<UpsertWrite(uDb).added>>
    /\ uStep' = 1
    /\ UNCHANGED <<uOp, uBatch>>
    /\ UNCHANGED <<ingestVars, rateVars, ctlVars, unitVars, viewVars>>

UpsertAgain ==
    /\ uStep = 1
    /\ uDb' = UpsertWrite(uDb).db
    /\ uAdded' = Append(uAdded, UpsertWrite(uDb).added)
    /\ uStep' = 2
    /\ UNCHANGED <<uOp, uBatch, uFirst>>
    /\ UNCHANGED <<ingestVars, rateVars, ctlVars, unitVars, viewVars>>

\* ----------------------------------------------------------- RateLimiter
\* The pool's workers share one exchange client created with
\* enableRateLimit; acquire() lets a call through only when the calls of
\* the second ending now stay within the ceiling.
CallsSince(log, t) == Cardinality({i \in DOMAIN log : log[i] > t})

\* variant: a counter reset at every whole second
PermitsFixedWindow(log, t) ==
    Cardinality({i \in DOMAIN log :
                    log[i] \div TicksPerSecond = t \div TicksPerSecond})
        < RequestsPerSecond

Permits(log, t) == CallsSince(log, t - TicksPerSecond) < RequestsPerSecond

RateInit ==
    /\ tick = 0
    /\ calls = <<>>
    /\ waiting = {}

RateIdle == RateInit

RateTick ==
    /\ tick < MaxTick
    /\ tick' = tick + 1
    /\ UNCHANGED <<calls, waiting>>
    /\ UNCHANGED <<ingestVars, upsertVars, ctlVars, unitVars, viewVars>>

\* a worker reaches ex.fetch_ohlcv and enters acquire()
WantCall(w) ==
    /\ w \notin waiting
    /\ waiting' = waiting \cup {w}
    /\ UNCHANGED <<tick, calls>>
    /\ UNCHANGED <<ingestVars, upsertVars, ctlVars, unitVars, viewVars>>

\* acquire() returns and the call goes out
Acquire(w) ==
    /\ w \in waiting
    /\ Permits(calls, tick)
    /\ calls' = Append(calls, tick)
    /\ waiting' = waiting \ {w}
    /\ UNCHANGED tick
    /\ UNCHANGED <<ingestVars, upsertVars, ctlVars, unitVars, viewVars>>

\* ------------------------------------------------- dashboard run control
DashboardStates == {"RUNNING", "PAUSED", "STOPPED"}
ControlActions == {"start", "pause", "stop", "resume"}

\* mockControl(action).state
mockControl(action) ==
    IF action = "pause" THEN "PAUSED"
    ELSE IF action = "stop" THEN "STOPPED"
    ELSE "RUNNING"

\* POST /api/control: the run's state machine; an invalid transition is
\* answered 409
ControlValid(state, action) ==
    \/ action = "start"  /\ state = "CREATED"
    \/ action = "pause"  /\ state = "RUNNING"
    \/ action = "resume" /\ state = "PAUSED"
    \/ action = "stop"   /\ state \in {"RUNNING", "PAUSED"}

ControlTarget(action) ==
    IF action = "pause" THEN "PAUSED"
    ELSE IF action = "stop" THEN "STOPPED"
    ELSE "RUNNING"

ControlInit ==
    /\ dashboardState = "STOPPED"
    /\ pendingCtl = <<>>
    /\ useMock \in BOOLEAN
    /\ serverState = "CREATED"

ControlIdle ==
    /\ dashboardState = "STOPPED"
    /\ pendingCtl = <<>>
    /\ useMock = FALSE
    /\ serverState = "CREATED"

\* handleControl(action) up to its await
SendControl(action) ==
    /\ Len(pendingCtl) < MaxPending
    /\ pendingCtl' = Append(pendingCtl, action)
    /\ UNCHANGED <<dashboardState, useMock, serverState>>
    /\ UNCHANGED <<ingestVars, upsertVars, rateVars, unitVars, viewVars>>

\* the buttons, each with its disabled condition
ClickRun == dashboardState # "RUNNING" /\ SendControl("start")
ClickPause == dashboardState = "RUNNING" /\ SendControl("pause")
ClickStop == dashboardState # "STOPPED" /\ SendControl("stop")
ClickResume == dashboardState = "PAUSED" /\ SendControl("resume")

\* the keydown handler: r, p, s
KeyR == SendControl("start")
KeyP == IF dashboardState = "PAUSED"
        THEN SendControl("resume")
        ELSE SendControl("pause")
KeyS == SendControl("stop")

\* handleControl after its await: setDashboardState(res.state); a 409
\* makes fetchJson throw and the state stays
ControlRespond ==
    /\ pendingCtl # <<>>
    /\ LET action == Head(pendingCtl)
       IN  IF useMock
           THEN /\ dashboardState' = mockControl(action)
                /\ UNCHANGED serverState
           ELSE IF ControlValid(serverState, action)
                THEN /\ serverState' = ControlTarget(action)
                     /\ dashboardState' = ControlTarget(action)
                ELSE UNCHANGED <<serverState, dashboardState>>
    /\ pendingCtl' = Tail(pendingCtl)
    /\ UNCHANGED useMock
    /\ UNCHANGED <<ingestVars, upsertVars, rateVars, unitVars, viewVars>>

\* ------------------------------------------------------ fetch_with_retry
\* One call of fetch_with_retry, with its delays in tenths of a second.
\* retry.kind and retry.fails describe the exchange: ex.fetch_ohlcv raises
\* an error of that kind on its first retry.fails invocations and returns
\* rows afterwards.
ErrorKinds == {"transient", "terminal"}

\* delay = 0.5
BaseDelay == 5
\* random.uniform(0, 0.2)
MaxJitter == 2
\* the cap of min(delay*2, 8)
DelayCap == 80
\* range(4)
RetryIterations == 4

\* variant: the delay is not doubled
NextDelayFlat(delay) == delay

\* delay = min(delay*2, 8)
NextDelay(delay) == Min({delay * 2, DelayCap})

RetryFrame(kind, fails) ==
    [pc |-> "call", kind |-> kind, fails |-> fails, i |-> 0,
     delay |-> BaseDelay, calls |-> 0, slept |-> <<>>, result |-> "none"]

RetryInit ==
    retry \in {RetryFrame(kind, fails) :
                  kind \in ErrorKinds, fails \in 0..(RetryIterations + 1)}

RetryIdle == retry = RetryFrame("transient", 0)

\* try: return ex.fetch_ohlcv(...)
FetchReturns ==
    /\ retry.pc = "call"
    /\ retry.i < RetryIterations
    /\ retry.calls >= retry.fails
    /\ retry' = [retry EXCEPT !.calls = @ + 1, !.result = "rows",
                              !.pc = "returned"]
    /\ UNCHANGED <<ingestVars, upsertVars, rateVars, ctlVars, viewVars>>
    /\ UNCHANGED <<tx, running, panel, store, gaps>>

\* ex.fetch_ohlcv raises; `except Exception` catches every kind
FetchRaises ==
    /\ retry.pc = "call"
    /\ retry.i < RetryIterations
    /\ retry.calls < retry.fails
    /\ retry' = [retry EXCEPT !.calls = @ + 1, !.pc = "sleep"]
    /\ UNCHANGED <<ingestVars, upsertVars, rateVars, ctlVars, viewVars>>
    /\ UNCHANGED <<tx, running, panel, store, gaps>>

\* time.sleep(delay + random.uniform(0, 0.2)); delay = min(delay*2, 8);
\* the loop goes to its next iteration
SleepThenNext ==
    /\ retry.pc = "sleep"
    /\ \E jitter \in 0..MaxJitter :
           retry' = [retry EXCEPT !.slept = Append(@, retry.delay + jitter),
                                  !.delay = NextDelay(retry.delay),
                                  !.i = @ + 1,
                                  !.pc = "call"]
    /\ UNCHANGED <<ingestVars, upsertVars, rateVars, ctlVars, viewVars>>
    /\ UNCHANGED <<tx, running, panel, store, gaps>>

\* the loop has run out: return []
ReturnEmpty ==
    /\ retry.pc = "call"
    /\ retry.i >= RetryIterations
    /\ retry' = [retry EXCEPT !.result = "empty", !.pc = "returned"]
    /\ UNCHANGED <<ingestVars, upsertVars, rateVars, ctlVars, viewVars>>
    /\ UNCHANGED <<tx, running, panel, store, gaps>>

\* ------------------------------------------- one database transaction
\* insert_rows(rows) / insert_all(data) statement by statement.  tx.table
\* is what other connections see, tx.work what the transaction sees, tx.rows
\* the statements in loop order (insert_all: data.items(), symbol by
\* symbol), tx.pos the statements executed, tx.before the table at entry.
TxRow == [symbol : UpsertSyms, ts : UpsertTs, final : BOOLEAN]

TxSeqs == UNION {[1..k -> TxRow] : k \in 0..MaxBatch}

\* the rows of one symbol follow each other
Grouped(rows) ==
    \A i, j, k \in DOMAIN rows :
        (i < j /\ j < k /\ rows[i].symbol = rows[k].symbol)
            => rows[j].symbol = rows[i].symbol

TxBatches(op) ==
    IF op = "insert_rows"
    THEN {rows \in TxSeqs : \A i \in DOMAIN rows : rows[i].symbol = SYMBOL}
    ELSE {rows \in TxSeqs : Grouped(rows)}

TxFrame(op, d, rows) ==
    [pc |-> "open", op |-> op, table |-> d, before |-> d, work |-> d,
     rows |-> rows, pos |-> 0]

TxInit ==
    \E op \in {"insert_rows", "insert_all"} :
        tx \in {TxFrame(op, d, rows) :
                   d \in UpsertTables, rows \in TxBatches(op)}

TxIdle == tx = TxFrame("insert_rows", {}, <<>>)

\* variant: the connection is in autocommit mode, every statement is
\* visible as soon as it has run
ConnExitAutocommit(table, work, raised) == work

\* leaving `with psycopg2.connect(...) as conn`: the transaction is rolled
\* back when the block raised, committed otherwise
ConnExit(table, work, raised) == IF raised THEN table ELSE work

\* cur.execute(INSERT ...) of the next row
TxExecute ==
    /\ tx.pc = "open"
    /\ tx.pos < Len(tx.rows)
    /\ LET row == tx.rows[tx.pos + 1]
       IN  tx' = [tx EXCEPT
                     !.work = InsertRow(tx.work, row.symbol, TF, row).db,
                     !.pos = @ + 1]
    /\ UNCHANGED <<ingestVars, upsertVars, rateVars, ctlVars, viewVars>>
    /\ UNCHANGED <<retry, running, panel, store, gaps>>

\* a statement or the commit raises (a value the column rejects, the
\* connection lost): the exception leaves the with block
TxRaise ==
    /\ tx.pc = "open"
    /\ tx' = [tx EXCEPT !.table = ConnExit(tx.table, tx.work, TRUE),
                        !.pc = "failed"]
    /\ UNCHANGED <<ingestVars, upsertVars, rateVars, ctlVars, viewVars>>
    /\ UNCHANGED <<retry, running, panel, store, gaps>>

\* conn.commit() after the loop, then the with block is left
TxCommit ==
    /\ tx.pc = "open"
    /\ tx.pos = Len(tx.rows)
    /\ tx' = [tx EXCEPT !.table = ConnExit(tx.table, tx.work, FALSE),
                        !.pc = "committed"]
    /\ UNCHANGED <<ingestVars, upsertVars, rateVars, ctlVars, viewVars>>
    /\ UNCHANGED <<retry, running, panel, store, gaps>>

\* ---------------------------------------------------- ingestion_control
\* the Redis key ingestion_running: "unset" before the first _set
FlagInit == running = "unset"

\* clients of the router
ApiClients == 1..MaxClients

\* api.chan: the messages published on channel ingestion_state so far;
\* api.req: each client's request on its way to the router; api.resp: the
\* last response each client received
ApiInit ==
    api = [chan |-> <<>>,
           req |-> [c \in ApiClients |-> "none"],
           resp |-> [c \in ApiClients |-> "none"]]

\* variant: the key is never seen as set
_getNever(key) == FALSE

_get(key) == key = "1"

\* _set(val): the key written and one message published
_set(val) ==
    [key |-> IF val THEN "1" ELSE "0", published |-> <<[running |-> val]>>]

\* start(): the key it leaves, what it publishes, what it answers
startRoute(key) ==
    IF _get(key)
    THEN [key |-> key, published |-> <<>>, msg |-> "already running"]
    ELSE [key |-> _set(TRUE).key, published |-> _set(TRUE).published,
          msg |-> "running"]

\* stop()
stopRoute(key) ==
    IF ~_get(key)
    THEN [key |-> key, published |-> <<>>, msg |-> "already stopped"]
    ELSE [key |-> _set(FALSE).key, published |-> _set(FALSE).published,
          msg |-> "stopped"]

\* the router serves a request: the handlers are coroutines without an
\* await, so one handler runs from _get to its return before the next
Handle(r) ==
    /\ Len(api.chan) + Len(r.published) <= MaxPublished
    /\ running' = r.key
    /\ UNCHANGED <<ingestVars, upsertVars, rateVars, ctlVars>>
    /\ UNCHANGED <<retry, tx, panel, store, gaps>>
    /\ UNCHANGED <<flush, controls, vm, stream, cov, settings, merge>>

\* POST /api/ingestion/start, sent and served
ApiStart ==
    /\ Handle(startRoute(running))
    /\ api' = [api EXCEPT !.chan = @ \o startRoute(running).published]

\* POST /api/ingestion/stop, sent and served
ApiStop ==
    /\ Handle(stopRoute(running))
    /\ api' = [api EXCEPT !.chan = @ \o stopRoute(running).published]

\* a client sends POST /api/ingestion/start or /stop
Post(c) ==
    /\ api.req[c] = "none"
    /\ \E what \in {"start", "stop"} : api' = [api EXCEPT !.req[c] = what]
    /\ UNCHANGED <<ingestVars, upsertVars, rateVars, ctlVars, unitVars>>
    /\ UNCHANGED <<flush, controls, vm, stream, cov, settings, merge>>

\* the router serves the request of client c and answers
Serve(c) ==
    /\ api.req[c] # "none"
    /\ LET r == IF api.req[c] = "start" THEN startRoute(running) ELSE stopRoute(running)
       IN  /\ Handle(r)
           /\ api' = [api EXCEPT !.chan = @ \o r.published,
                                 !.req[c] = "none",
                                 !.resp[c] = r.msg]

\* the backfill is launched while ingestion is switched on
StartRunWhileOn == _get(running) /\ StartRun

\* ------------------------------------------------- starting an ingestion
\* Two start forms: IngestionPanel (IngestionPanel.js) and the dashboard
\* App (the coverage dashboard with startIngestion).  panel.view says which
\* one is mounted; the other one's fields keep their initial values.
\* The symbols text is held as its comma-separated pieces.
DEFAULT_TASKS ==
    <<[timeframe |-> "1m", candles |-> "600"],
      [timeframe |-> "5m", candles |-> "288"],
      [timeframe |-> "1h", candles |-> "168"]>>

\* pieces the user types between commas, candle counts the user types
Pieces == {"", " ", "BTC/USDT"}
Typed == {"", "abc"}

\* task rows the form holds at most
MaxTasks == Len(DEFAULT_TASKS)

SymbolTexts == UNION {[1..k -> Pieces] : k \in 1..MaxPieces}

\* String.prototype.trim
Trim(s) == IF s = " " THEN "" ELSE s

\* Number(text): nan stands for NaN
Number(s) ==
    IF s = "abc" THEN [nan |-> TRUE, n |-> 0]
    ELSE [nan |-> FALSE,
          n |-> CASE s = "600" -> 600
                  [] s = "288" -> 288
                  [] s = "168" -> 168
                  [] s = "96" -> 96
                  [] s = "0" -> 0
                  [] OTHER -> 0]

\* Number.parseInt(value, 10) of parsePositiveInt
parsePositiveInt(s) ==
    IF s \in {"", "abc"} THEN [nan |-> TRUE, n |-> 0]
    ELSE [nan |-> FALSE,
          n |-> CASE s = "6000" -> 6000
                  [] OTHER -> 0]

SymbolListOf(symbols) ==
    SelectSeq([i \in DOMAIN symbols |-> Trim(symbols[i])],
              LAMBDA s : s # "")

TaskPayloadOf(tasks) ==
    SelectSeq([i \in DOMAIN tasks |->
                  [timeframe |-> Trim(tasks[i].timeframe),
                   candles_per_symbol |-> Number(tasks[i].candles)]],
              LAMBDA row : /\ row.timeframe # ""
                           /\ ~row.candles_per_symbol.nan
                           /\ row.candles_per_symbol.n > 0)

\* variant: the payload is built without the two checks
buildPayloadUnchecked(symbols, tasks) ==
    [threw |-> "", symbols |-> SymbolListOf(symbols),
     tasks |-> TaskPayloadOf(tasks)]

\* buildPayload: threw is the message of the Error thrown, "" when none
buildPayload(symbols, tasks) ==
    IF SymbolListOf(symbols) = <<>>
    THEN [threw |-> "Please provide at least one symbol.",
          symbols |-> <<>>, tasks |-> <<>>]
    ELSE IF TaskPayloadOf(tasks) = <<>>
    THEN [threw |-> "Please add at least one timeframe.",
          symbols |-> <<>>, tasks |-> <<>>]
    ELSE [threw |-> "", symbols |-> SymbolListOf(symbols),
          tasks |-> TaskPayloadOf(tasks)]

PanelFrame(view) ==
    [view |-> view,
     symbols |-> <<"BTC/USDT", "ETH/USDT">>, tasks |-> DEFAULT_TASKS,
     runId |-> 0, message |-> "",
     candlesPerSymbol |-> "6000", availableSymbols |-> {},
     selectedSymbols |-> {}, starting |-> FALSE, ingesting |-> FALSE,
     msg |-> "", alert |-> "",
     sent |-> 0, pending |-> 0]

PanelInit == panel \in {PanelFrame(view) : view \in {"IngestionPanel", "App"}}

PanelIdle == panel = PanelFrame("IngestionPanel")

PanelStep(p) ==
    /\ panel' = p
    /\ UNCHANGED <<ingestVars, upsertVars, rateVars, ctlVars, viewVars>>
    /\ UNCHANGED <<retry, tx, running, store, gaps>>

\* onChange of the symbols input
SetSymbols ==
    /\ panel.view = "IngestionPanel"
    /\ \E text \in SymbolTexts : PanelStep([panel EXCEPT !.symbols = text])

\* updateTask(index, { candles })
UpdateTask ==
    /\ panel.view = "IngestionPanel"
    /\ \E index \in DOMAIN panel.tasks : \E c \in Typed :
           PanelStep([panel EXCEPT !.tasks[index].candles = c])

AddTask ==
    /\ panel.view = "IngestionPanel"
    /\ Len(panel.tasks) < MaxTasks
    /\ PanelStep([panel EXCEPT
           !.tasks = Append(@, [timeframe |-> "15m", candles |-> "96"])])

\* removeTask(index); the button is disabled when one task is left
RemoveTask ==
    /\ panel.view = "IngestionPanel"
    /\ Len(panel.tasks) # 1
    /\ \E index \in DOMAIN panel.tasks :
           PanelStep([panel EXCEPT
               !.tasks = SubSeq(@, 1, index - 1) \o SubSeq(@, index + 1, Len(@))])

\* handleStart up to its await
HandleStart ==
    /\ panel.view = "IngestionPanel"
    /\ LET payload == buildPayload(panel.symbols, panel.tasks)
       IN  IF payload.threw # ""
           THEN PanelStep([panel EXCEPT !.message = payload.threw])
           ELSE /\ panel.sent < MaxRuns
                /\ PanelStep([panel EXCEPT !.sent = @ + 1, !.pending = @ + 1])

\* handleStart after its await: the response carries a run id or none (0),
\* or runIngestion threw
HandleStartResponds ==
    /\ panel.view = "IngestionPanel"
    /\ panel.pending > 0
    /\ \/ \E rid \in {0, panel.sent} :
              PanelStep([panel EXCEPT !.runId = rid,
                                      !.message = "Ingestion started",
                                      !.pending = @ - 1])
       \/ PanelStep([panel EXCEPT !.message = "HTTP 500: ",
                                  !.pending = @ - 1])

\* the dashboard App: onChange of the candles input
SetCandlesPerSymbol ==
    /\ panel.view = "App"
    /\ \E v \in {"6000", "0"} \cup Typed :
           PanelStep([panel EXCEPT !.candlesPerSymbol = v])

\* loadSymbols: the list arrives; the selection keeps what is still listed,
\* or becomes the whole list
LoadSymbols ==
    /\ panel.view = "App"
    /\ \E list \in SUBSET UpsertSyms :
           LET filtered == panel.selectedSymbols \cap list
           IN  PanelStep([panel EXCEPT
                   !.availableSymbols = list,
                   !.selectedSymbols =
                       IF filtered # {} THEN filtered ELSE list])

\* handleSymbolSelection / handleClearSelection
HandleSymbolSelection ==
    /\ panel.view = "App"
    /\ \E values \in SUBSET panel.availableSymbols :
           PanelStep([panel EXCEPT !.selectedSymbols = values])

\* startIngestion up to its fetch; the button calls it when not ingesting
StartIngestion ==
    /\ panel.view = "App"
    /\ ~panel.ingesting
    /\ LET cps == parsePositiveInt(panel.candlesPerSymbol)
           activeSymbols == panel.selectedSymbols \cap panel.availableSymbols
       IN  IF cps.nan \/ cps.n <= 0
           THEN PanelStep([panel EXCEPT !.alert =
                    "Please enter a valid positive number for Candles per Symbol."])
           ELSE IF activeSymbols = {}
           THEN PanelStep([panel EXCEPT !.alert =
                    "Please select at least one symbol."])
           ELSE /\ panel.sent < MaxRuns
                /\ PanelStep([panel EXCEPT !.starting = TRUE, !.msg = "",
                                          !.sent = @ + 1, !.pending = @ + 1])

\* startIngestion after its fetch: response.ok and pollIngestion's answer,
\* or the catch branch; finally setStarting(false)
StartIngestionResponds ==
    /\ panel.view = "App"
    /\ panel.pending > 0
    /\ \/ \E started \in BOOLEAN : \E polled \in BOOLEAN :
              PanelStep([panel EXCEPT
                  !.ingesting = IF started THEN TRUE ELSE polled,
                  !.msg = IF started THEN "Ingestion started"
                          ELSE "Ingestion enqueued; waiting for status...",
                  !.starting = FALSE, !.pending = @ - 1])
       \/ PanelStep([panel EXCEPT !.ingesting = FALSE, !.msg = "Start failed",
                                  !.starting = FALSE, !.pending = @ - 1])

\* ------------------------------------------------------------ statusStore
\* rows and lastUpdated of useStatusStore.  Timestamps (ISO strings in the
\* code) are counted in ticks, 0 standing for undefined; store.clock is what
\* new Date() reads.
Pairs == {SymbolList[1], SymbolList[2]}

\* timeframes of a row (TimeframeProgress): key -> percentage; the keys are
\* whatever strings the server sends
TimeframeProgress ==
    { ("1h" :> 1) @@ ("5m" :> 1), ("5m" :> 2), ("" :> 1) }

PairDataWith(maps) ==
    [pair : Pairs, status : {"active", "done"}, updatedAt : 0..MaxStamp,
     timeframes : maps]

\* the rows the status feed delivers while the store is watched as a whole
PairData == PairDataWith({("5m" :> 1)})

\* snapshots of /api/status: one row per pair
SnapshotsOf(rowSet) ==
    {rows \in UNION {[1..k -> rowSet] : k \in 0..Cardinality(Pairs)} :
        \A i, j \in DOMAIN rows : rows[i].pair = rows[j].pair => i = j}

Snapshots == SnapshotsOf(PairData)

UNIT_ORDER == [s |-> 0, m |-> 1, h |-> 2, d |-> 3, w |-> 4, mo |-> 5]

\* key.replace(/\d+/g, "") and Number(key.replace(/[^\d]/g, "")) || 0
KeyUnit(key) == CASE key = "5m" -> "m" [] key = "1h" -> "h" [] OTHER -> ""

KeyDigits(key) == CASE key = "5m" -> 5 [] key = "1h" -> 1 [] OTHER -> 0

parseForSort(key) ==
    [weight |-> IF KeyUnit(key) \in DOMAIN UNIT_ORDER
                THEN UNIT_ORDER[KeyUnit(key)] ELSE 999,
     magnitude |-> KeyDigits(key)]

\* the comparator of sortTimeframes is negative
SortsBefore(a, b) ==
    LET left == parseForSort(a)
        right == parseForSort(b)
    IN  IF left.weight = right.weight
        THEN left.magnitude < right.magnitude
        ELSE left.weight < right.weight

\* .filter((key) => key)
Truthy(key) == key # ""

\* [...new Set(keys)].filter(...).sort(...)
RECURSIVE SortKeys(_)
SortKeys(S) ==
    IF S = {} THEN <<>>
    ELSE LET first == CHOOSE a \in S : \A b \in S \ {a} : SortsBefore(a, b)
         IN  <<first>> \o SortKeys(S \ {first})

sortTimeframes(keys) == SortKeys({k \in keys : Truthy(k)})

\* rows.flatMap((row) => Object.keys(row.timeframes ?? {}))
deriveTimeframeKeys(rows) ==
    sortTimeframes(UNION {DOMAIN rows[i].timeframes : i \in DOMAIN rows})

StoreInit ==
    store = [rows |-> <<>>, timeframeKeys |-> <<>>, lastUpdated |-> 0,
             clock |-> 1]

StoreStep(s) ==
    /\ store' = s
    /\ UNCHANGED <<ingestVars, upsertVars, rateVars, ctlVars, viewVars>>
    /\ UNCHANGED <<retry, tx, running, panel, gaps>>

StoreTick ==
    /\ store.clock < MaxStamp
    /\ StoreStep([store EXCEPT !.clock = @ + 1])

\* a ?? b
Coalesce(a, b) == IF a = 0 THEN b ELSE a

\* setRows(rows, lastUpdated)
setRows(s, rows, lastUpdated) ==
    [s EXCEPT !.rows = rows,
              !.timeframeKeys = deriveTimeframeKeys(rows),
              !.lastUpdated = Coalesce(lastUpdated, s.clock)]

\* state.rows.findIndex((item) => item.pair === row.pair), 0 for -1
findIndex(rows, pair) ==
    IF \E i \in DOMAIN rows : rows[i].pair = pair
    THEN Min({i \in DOMAIN rows : rows[i].pair = pair})
    ELSE 0

\* variant: the row's timeframes replace the stored ones
SpreadReplace(a, b) == b

\* { ...a, ...b }
Spread(a, b) ==
    [k \in DOMAIN a \cup DOMAIN b |-> IF k \in DOMAIN b THEN b[k] ELSE a[k]]

\* mergeRow(row): { ...item, ...row, timeframes: {...} } for the row of the
\* pair (every field of row overrides item's), or the row appended
mergeRow(s, row) ==
    LET existingIndex == findIndex(s.rows, row.pair)
        nextRows ==
            IF existingIndex > 0
            THEN [s.rows EXCEPT ![existingIndex] =
                     [row EXCEPT !.timeframes = Spread(s.rows[existingIndex].timeframes, @)]]
            ELSE Append(s.rows, row)
    IN  [s EXCEPT !.rows = nextRows,
                  !.timeframeKeys = deriveTimeframeKeys(nextRows),
                  !.lastUpdated = Coalesce(row.updatedAt, s.clock)]

\* a snapshot of /api/status arrives
SetRows ==
    \E rows \in Snapshots : \E lastUpdated \in 0..MaxStamp :
        StoreStep(setRows(store, rows, lastUpdated))

\* a status delta arrives
MergeRow ==
    \E row \in PairData : StoreStep(mergeRow(store, row))

\* ------------------------------------------------------------ GapDetector
\* find_gaps(stream, start, end) at wall-clock time T over the persisted
\* bucket starts `present`: the expected buckets are start, start + c, ...
\* below end; the missing closed ones are emitted as maximal [start, end)
\* ranges.
Expected(c, start, end) ==
    {b \in start..(end - 1) : (b - start) % c = 0}

\* variant: every missing bucket becomes a range of its own
MergeRunsSingle(missing, c, acc) ==
    acc \o [i \in DOMAIN missing |->
               [start |-> missing[i], end |-> missing[i] + c]]

RECURSIVE MergeRuns(_, _, _)
MergeRuns(missing, c, acc) ==
    IF missing = <<>> THEN acc
    ELSE LET b == Head(missing)
         IN  IF acc # <<>> /\ acc[Len(acc)].end = b
             THEN MergeRuns(Tail(missing), c,
                            [acc EXCEPT ![Len(acc)].end = b + c])
             ELSE MergeRuns(Tail(missing), c,
                            Append(acc, [start |-> b, end |-> b + c]))

find_gaps(present, c, start, end, T) ==
    LET closed  == {b \in Expected(c, start, end) : b + c <= T}
        missing == SortedSeq(closed \ present)
    IN  MergeRuns(missing, c, <<>>)

GapsFrame(tf, present, n, T) ==
    [pc |-> "call", tf |-> tf, present |-> present, start |-> 0,
     end |-> n * secmap(tf), T |-> T, result |-> <<>>]

GapsInit ==
    \E tf \in TIMEFRAMES :
        LET c == secmap(tf)
        IN  gaps \in {GapsFrame(tf, present, n, T) :
                        present \in SUBSET {k * c : k \in 0..(MaxGapBuckets - 1)},
                        n \in 1..MaxGapBuckets,
                        T \in {k * c + o : k \in 0..(MaxGapBuckets + 1),
                                           o \in {0, c - 1}}}

GapsIdle == gaps = GapsFrame("1m", {}, 1, 0)

ApplyFindGaps ==
    /\ gaps.pc = "call"
    /\ gaps' = [gaps EXCEPT
           !.result = find_gaps(gaps.present, secmap(gaps.tf),
                                gaps.start, gaps.end, gaps.T),
           !.pc = "done"]
    /\ UNCHANGED <<ingestVars, upsertVars, rateVars, ctlVars, viewVars>>
    /\ UNCHANGED <<retry, tx, running, panel, store>>

UnitIdle ==
    /\ RetryIdle
    /\ TxIdle
    /\ FlagInit
    /\ PanelIdle
    /\ StoreInit
    /\ GapsIdle

\* ------------------------------------------------------ dashboard flushDB
\* flushDB, stopIngestion({silent: true}) and pollIngestion(false) of the
\* dashboard.  flush.log lists, for the latest flushDB call, the requests it
\* sent and how the stop request was answered.
STATUS_POLL_ATTEMPTS == 20

FlushInit ==
    flush = [pc |-> "idle", ingesting |-> FALSE, starting |-> FALSE,
             msg |-> "", asked |-> FALSE, answer |-> "none", attempt |-> 0,
             log |-> <<>>]

FlushStep(f) ==
    /\ flush' = f
    /\ UNCHANGED <<ingestVars, upsertVars, rateVars, ctlVars, unitVars>>
    /\ UNCHANGED <<controls, api, vm, stream, cov, settings, merge>>

\* checkStatus: /api/ingestion/status answers with a boolean
CheckStatus ==
    /\ flush.pc = "idle"
    /\ \E isRunning \in BOOLEAN :
          FlushStep([flush EXCEPT !.ingesting = isRunning])

\* flushDB up to its first await (or its return when the user declines)
FlushDB ==
    /\ flush.pc = "idle"
    /\ \E confirmStop \in BOOLEAN :
          LET f == [flush EXCEPT !.asked = flush.ingesting, !.attempt = 0]
          IN  IF flush.ingesting
              THEN IF ~confirmStop
                   THEN FlushStep([f EXCEPT !.starting = FALSE, !.msg = "",
                                            !.answer = "no", !.log = <<>>])
                   ELSE FlushStep([f EXCEPT !.starting = TRUE,
                                            !.msg = "Stopping ingestion...",
                                            !.ingesting = FALSE,
                                            !.answer = "yes",
                                            !.pc = "stop",
                                            !.log = <<"POST /api/ingestion/stop">>])
              ELSE FlushStep([f EXCEPT !.starting = TRUE,
                                       !.msg = "Flushing database...",
                                       !.answer = "none",
                                       !.pc = "flush",
                                       !.log = <<"POST /api/db/flush">>])

\* variant: a failed stop is logged and swallowed
StopSwallows(ok) == FALSE

\* stopIngestion: if (!response.ok) throw, rethrown by its catch
StopThrows(ok) == ~ok

\* the stop request is answered (ok = FALSE: a status that is not ok, or the
\* request rejected); a throw reaches flushDB's catch and finally
StopResponds ==
    /\ flush.pc = "stop"
    /\ \E ok \in BOOLEAN :
          LET f == [flush EXCEPT !.ingesting = FALSE,
                       !.log = Append(@, IF ok THEN "stop ok" ELSE "stop failed")]
          IN  IF StopThrows(ok)
              THEN FlushStep([f EXCEPT !.pc = "idle", !.msg = "Flush failed",
                                       !.starting = FALSE])
              ELSE FlushStep([f EXCEPT !.pc = "poll", !.attempt = 0])

\* one iteration of pollIngestion(false): the status is answered with a
\* boolean or not at all; when the loop ends stopIngestion returns and
\* flushDB sends the flush request
PollResponds ==
    /\ flush.pc = "poll"
    /\ \E answer \in {"true", "false", "none"} :
          LET isRunning == IF answer = "none" THEN flush.ingesting
                           ELSE answer = "true"
              over == answer = "false"
                          \/ flush.attempt + 1 >= STATUS_POLL_ATTEMPTS
          IN  IF over
              THEN FlushStep([flush EXCEPT !.ingesting = FALSE,
                                           !.attempt = @ + 1,
                                           !.msg = "Flushing database...",
                                           !.pc = "flush",
                                           !.log = Append(@, "POST /api/db/flush")])
              ELSE FlushStep([flush EXCEPT !.ingesting = isRunning,
                                           !.attempt = @ + 1])

\* the flush request is answered
FlushResponds ==
    /\ flush.pc = "flush"
    /\ \E ok \in BOOLEAN :
          FlushStep([flush EXCEPT !.pc = "idle", !.starting = FALSE,
                        !.msg = IF ok THEN "DB flushed" ELSE "Flush failed"])

\* ---------------------------------------------------------------- Controls
\* The Controls component: the displayed state `running`, the status polls
\* in flight (sent by the 500 ms interval, the mount effect or Refresh) and
\* one toggle() call.  controls.backend is the flag behind the API; a poll is
\* "sent" until the API reads the flag, then carries "on" or "off".
PollSlots == 1..MaxPolls

ControlsInit ==
    controls = [running |-> FALSE, backend |-> FALSE,
                polls |-> [i \in PollSlots |-> "free"],
                pc |-> "idle", next |-> FALSE]

ControlsStep(c) ==
    /\ controls' = c
    /\ UNCHANGED <<ingestVars, upsertVars, rateVars, ctlVars, unitVars>>
    /\ UNCHANGED <<flush, api, vm, stream, cov, settings, merge>>

\* getStatus(): the request leaves
PollSend(i) ==
    /\ controls.polls[i] = "free"
    /\ ControlsStep([controls EXCEPT !.polls[i] = "sent"])

\* GET /api/ingestion/status is served: the flag is read
PollServe(i) ==
    /\ controls.polls[i] = "sent"
    /\ ControlsStep([controls EXCEPT
           !.polls[i] = IF controls.backend THEN "on" ELSE "off"])

\* the poll's response arrives: setRunning(v)
PollArrives(i) ==
    /\ controls.polls[i] \in {"on", "off"}
    /\ ControlsStep([controls EXCEPT !.polls[i] = "free",
                                     !.running = controls.polls[i] = "on"])

\* the poll fails: catch {}
PollFails(i) ==
    /\ controls.polls[i] # "free"
    /\ ControlsStep([controls EXCEPT !.polls[i] = "free"])

\* toggle() up to its await: the optimistic flip and the POST
Toggle ==
    /\ controls.pc \in {"idle", "confirmed", "reverted"}
    /\ ControlsStep([controls EXCEPT !.next = ~controls.running,
                                     !.running = ~controls.running,
                                     !.pc = "sent"])

\* the API serves POST /start or /stop (the flag set to next, ok: true) or
\* the request fails
ToggleServe ==
    /\ controls.pc = "sent"
    /\ \E ok \in BOOLEAN :
          IF ok
          THEN ControlsStep([controls EXCEPT !.backend = controls.next,
                                             !.pc = "accepted"])
          ELSE ControlsStep([controls EXCEPT !.pc = "refused"])

\* toggle() after its await; catch: setRunning(!next)
ToggleArrives ==
    \/ /\ controls.pc = "accepted"
       /\ ControlsStep([controls EXCEPT !.pc = "confirmed"])
    \/ /\ controls.pc = "refused"
       /\ ControlsStep([controls EXCEPT !.running = ~controls.next,
                                        !.pc = "reverted"])

\* -------------------------------------------- useStatusViewModel: fetches
\* fetchStatus and the mount effect.  vm.reqs[i] is the i-th request:
\* "inflight", "aborted" (its signal was aborted, its rejection not yet
\* delivered) or "settled"; vm.abortRef is the index abortRef.current holds
\* (0 for null).  The rows a response carries go to the store.
FetchIds == 1..MaxFetches

StatusFeed ==
    SnapshotsOf({[pair |-> SymbolList[1], status |-> "active",
                  updatedAt |-> 1, timeframes |-> ("5m" :> 1)]})

VmInit ==
    vm = [mounted |-> TRUE, isLoading |-> FALSE, error |-> FALSE,
          abortRef |-> 0, started |-> 0,
          reqs |-> [i \in FetchIds |-> "none"],
          silent |-> [i \in FetchIds |-> FALSE]]

VmStep(v, s) ==
    /\ vm' = v
    /\ store' = s
    /\ UNCHANGED <<ingestVars, upsertVars, rateVars, ctlVars>>
    /\ UNCHANGED <<retry, tx, running, panel, gaps>>
    /\ UNCHANGED <<flush, controls, api, stream, cov, settings, merge>>

\* controller.abort(): an in-flight request becomes aborted
Abort(reqs, i) ==
    IF i > 0 /\ reqs[i] = "inflight" THEN [reqs EXCEPT ![i] = "aborted"]
    ELSE reqs

\* fetchStatus(options) up to its await
FetchStatus ==
    /\ vm.mounted
    /\ vm.started < MaxFetches
    /\ \E silent \in BOOLEAN :
          LET id == vm.started + 1
          IN  VmStep([vm EXCEPT
                         !.reqs = [Abort(vm.reqs, vm.abortRef) EXCEPT
                                      ![id] = "inflight"],
                         !.silent[id] = silent,
                         !.abortRef = id,
                         !.started = id,
                         !.isLoading = IF silent THEN @ ELSE TRUE,
                         !.error = IF silent THEN @ ELSE FALSE],
                    store)

\* finally { setLoading(false); abortRef.current = null; }
Finally(v, i) ==
    [v EXCEPT !.reqs[i] = "settled", !.isLoading = FALSE, !.abortRef = 0]

\* the response arrives: setRows(response.items, response.lastUpdated)
FetchResolves(i) ==
    /\ vm.reqs[i] = "inflight"
    /\ \E rows \in StatusFeed : \E lastUpdated \in {0, MaxStamp} :
          VmStep(Finally([vm EXCEPT !.error = FALSE], i),
                 setRows(store, rows, lastUpdated))

\* the request fails: setError, setToast
FetchFails(i) ==
    /\ vm.reqs[i] = "inflight"
    /\ VmStep(Finally([vm EXCEPT !.error = TRUE], i), store)

\* the aborted request rejects with AbortError: catch returns, finally runs
AbortedRejects(i) ==
    /\ vm.reqs[i] = "aborted"
    /\ VmStep(Finally(vm, i), store)

\* cleanup of the mount effect: abortRef.current?.abort()
VmUnmount ==
    /\ vm.mounted
    /\ VmStep([vm EXCEPT !.mounted = FALSE,
                         !.reqs = Abort(vm.reqs, vm.abortRef)], store)

\* --------------------------------------- useStatusViewModel: status stream
\* The stream effect and StatusDataService.connectToStream.  stream.socks[i]
\* is the i-th WebSocket: "connecting", "open", "failed" (its error event
\* fired, its close event is due), "closing" (close() called) or "closed";
\* stream.connection is the socket the effect's `connection` holds,
\* stream.disconnectTimer whether the handle is non-null, stream.timers the
\* timeouts that are pending.
SocketIds == 1..MaxSockets

\* the state after the effect ran connect()
StreamInit ==
    stream = [isMounted |-> TRUE, connectionStatus |-> "connecting",
              connection |-> 1, disconnectTimer |-> FALSE, timers |-> 0,
              toast |-> FALSE,
              socks |-> [i \in SocketIds |-> IF i = 1 THEN "connecting"
                                             ELSE "none"]]

StreamStep(t, s) ==
    /\ stream' = t
    /\ store' = s
    /\ UNCHANGED <<ingestVars, upsertVars, rateVars, ctlVars>>
    /\ UNCHANGED <<retry, tx, running, panel, gaps>>
    /\ UNCHANGED <<flush, controls, api, vm, cov, settings, merge>>

\* sockets created so far
Created(t) == Cardinality({i \in SocketIds : t.socks[i] # "none"})

\* connect()
connect(t) ==
    IF ~t.isMounted THEN t
    ELSE [t EXCEPT !.connectionStatus = "connecting",
                   !.connection = Created(t) + 1,
                   !.socks[Created(t) + 1] = "connecting"]

\* scheduleReconnect()
scheduleReconnect(t) ==
    IF t.disconnectTimer THEN t
    ELSE [t EXCEPT !.disconnectTimer = TRUE, !.timers = @ + 1]

\* onError
onError(t) ==
    IF ~t.isMounted THEN t
    ELSE scheduleReconnect([t EXCEPT !.connectionStatus = "disconnected",
                                     !.toast = TRUE])

\* onClose
onClose(t) ==
    IF ~t.isMounted THEN t
    ELSE scheduleReconnect([t EXCEPT !.connectionStatus = "disconnected"])

\* "open" event: onOpen
SocketOpens(i) ==
    /\ stream.socks[i] = "connecting"
    /\ StreamStep([stream EXCEPT
                      !.socks[i] = "open",
                      !.connectionStatus =
                          IF stream.isMounted THEN "connected" ELSE @],
                  store)

\* "message" event: a snapshot (onSnapshot), a row (onData), or a frame
\* JSON.parse throws on (the catch calls onError)
SocketMessage(i) ==
    /\ stream.socks[i] = "open"
    /\ \/ \E rows \in StatusFeed :
             StreamStep(stream,
                        IF stream.isMounted THEN setRows(store, rows, 0)
                        ELSE store)
       \/ \E rows \in StatusFeed \ {<<>>} :
             StreamStep(stream,
                        IF stream.isMounted THEN mergeRow(store, rows[1])
                        ELSE store)
       \/ StreamStep(onError(stream), store)

\* "error" event: the connection failed; the browser closes the socket
SocketError(i) ==
    /\ stream.socks[i] \in {"connecting", "open"}
    /\ StreamStep(onError([stream EXCEPT !.socks[i] = "failed"]), store)

\* "close" event, after an error, after close() or when the server closes
SocketCloses(i) ==
    /\ stream.socks[i] \in {"open", "failed", "closing"}
    /\ StreamStep(onClose([stream EXCEPT !.socks[i] = "closed"]), store)

\* the reconnect timeout fires
TimerFires ==
    /\ stream.timers > 0
    /\ Created(stream) < MaxSockets
    /\ StreamStep(connect([stream EXCEPT !.disconnectTimer = FALSE,
                                         !.timers = @ - 1]), store)

\* cleanup of the effect: clearTimeout, connection?.close()
StreamUnmount ==
    /\ stream.isMounted
    /\ LET c == stream.connection
       IN  StreamStep([stream EXCEPT
                          !.isMounted = FALSE,
                          !.timers = IF stream.disconnectTimer THEN @ - 1
                                     ELSE @,
                          !.socks[c] = IF @ \in {"open", "connecting"}
                                       THEN "closing" ELSE @],
                      store)

\* ------------------------------------------------------ CoverageViewModel
\* cov.timer: this.timer is non-null; cov.intervals: the interval timers
\* that exist; cov.reqs[i]: the i-th fetchOnce ("inflight" until its response
\* arrives); cov.snap.rows: the fetchOnce whose rows the snapshot holds (0
\* for the initial empty list).
CoverageIds == 1..MaxCoverageFetches

CoverageInit ==
    cov = [timer |-> FALSE, intervals |-> 0, started |-> 0,
           reqs |-> [i \in CoverageIds |-> "none"],
           snap |-> [rows |-> 0, loading |-> FALSE, error |-> FALSE]]

CoverageStep(c) ==
    /\ cov' = c
    /\ UNCHANGED <<ingestVars, upsertVars, rateVars, ctlVars, unitVars>>
    /\ UNCHANGED <<flush, controls, api, vm, stream, settings, merge>>

\* fetchOnce() up to its await
fetchOnce(c) ==
    [c EXCEPT !.snap.loading = TRUE,
              !.started = @ + 1,
              !.reqs[c.started + 1] = "inflight"]

\* start(intervalMs)
CoverageStart ==
    /\ cov.started < MaxCoverageFetches
    /\ IF cov.timer THEN CoverageStep(cov)
       ELSE CoverageStep([fetchOnce(cov) EXCEPT !.timer = TRUE,
                                                !.intervals = @ + 1])

\* stop()
CoverageStop ==
    IF cov.timer
    THEN CoverageStep([cov EXCEPT !.timer = FALSE, !.intervals = @ - 1])
    ELSE CoverageStep(cov)

\* an interval timer fires: this.fetchOnce()
CoverageTick ==
    /\ cov.intervals > 0
    /\ cov.started < MaxCoverageFetches
    /\ CoverageStep(fetchOnce(cov))

\* the response of a fetchOnce arrives: this.snap = { rows, lastRefresh,
\* loading: false }
CoverageResolves(i) ==
    /\ cov.reqs[i] = "inflight"
    /\ CoverageStep([cov EXCEPT !.reqs[i] = "done",
                        !.snap = [rows |-> i, loading |-> FALSE,
                                  error |-> FALSE]])

\* the request of a fetchOnce fails: { ...this.snap, loading: false, error }
CoverageFails(i) ==
    /\ cov.reqs[i] = "inflight"
    /\ CoverageStep([cov EXCEPT !.reqs[i] = "done",
                                !.snap.loading = FALSE,
                                !.snap.error = TRUE])

\* ---------------------------------------------------- StatusTable settings
\* applySettings, the hydrate effect and the Throttle inputs.  settings.pc is
\* the position of hydrate ("mount", "loading" while /api/settings is
\* awaited, "ready"); settings.stored what setSettings was given last.
TIMEFRAME_OPTIONS == <<"1m", "3m", "5m">>

defaultSettings ==
    [interval |-> 5, threads |-> 7, throttle_min |-> 200,
     throttle_max |-> 1500, retries |-> 3, backoff_ms |-> 500,
     timeframes |-> TIMEFRAME_OPTIONS]

\* numbers that persisted or remote settings and the inputs may carry
Extremes == {-15, 70}

SettingValues == Extremes \cup {3}

\* settings read from localStorage (over the defaults) or sent by the server
Payloads ==
    [interval : Extremes, threads : Extremes, throttle_min : SettingValues,
     throttle_max : SettingValues, retries : Extremes, backoff_ms : Extremes,
     timeframes : {<<>>, <<"1m">>}]

SettingsInit == settings = [pc |-> "mount", stored |-> defaultSettings]

SettingsStep(s) ==
    /\ settings' = s
    /\ UNCHANGED <<ingestVars, upsertVars, rateVars, ctlVars, unitVars>>
    /\ UNCHANGED <<flush, controls, api, vm, stream, cov, merge>>

clamp(n, min, max) == Max({min, Min({max, n})})

\* applySettings(next): the record given to setSettings
applySettings(next) ==
    [next EXCEPT
        !.interval = clamp(next.interval, 1, 60),
        !.threads = clamp(next.threads, 1, 16),
        !.throttle_min = Max({0, next.throttle_min}),
        !.throttle_max = Max({next.throttle_min + 10, next.throttle_max}),
        !.retries = Max({0, next.retries}),
        !.backoff_ms = Max({0, next.backoff_ms}),
        !.timeframes = IF Len(next.timeframes) > 0 THEN next.timeframes
                       ELSE TIMEFRAME_OPTIONS]

\* hydrate, first part: the defaults or the persisted settings are applied
HydrateSaved ==
    /\ settings.pc = "mount"
    /\ \E initial \in {defaultSettings} \cup Payloads :
          SettingsStep([pc |-> "loading", stored |-> applySettings(initial)])

\* hydrate, second part: the server's settings are applied, or the request
\* fails
HydrateRemote ==
    /\ settings.pc = "loading"
    /\ \/ \E remote \in Payloads :
             SettingsStep([pc |-> "ready", stored |-> applySettings(remote)])
       \/ SettingsStep([settings EXCEPT !.pc = "ready"])

\* the first Throttle input changes
SetThrottleMin ==
    \E val \in SettingValues :
        SettingsStep([settings EXCEPT !.stored = applySettings(
            [settings.stored EXCEPT
                !.throttle_min = Max({0, val}),
                !.throttle_max = Max({settings.stored.throttle_max,
                                      Max({0, val}) + 10})])])

\* the second Throttle input changes
SetThrottleMax ==
    \E val \in SettingValues :
        SettingsStep([settings EXCEPT !.stored = applySettings(
            [settings.stored EXCEPT
                !.throttle_max = Max({settings.stored.throttle_min + 10,
                                      val})])])

\* ------------------------------------------------------ one mergeRow call
\* mergeRow applied to a store holding a snapshot: merge.state is the store
\* before the call, merge.row the argument, merge.out the store after it.
MergeIdle == merge = [pc |-> "idle"]

MergeInit ==
    merge \in {[pc |-> "call",
                state |-> setRows([rows |-> <<>>, timeframeKeys |-> <<>>,
                                   lastUpdated |-> 0, clock |-> 1], rows, 0),
                row |-> row,
                out |-> "none"] :
                   rows \in SnapshotsOf(PairDataWith(TimeframeProgress)),
                   row \in PairDataWith(TimeframeProgress)}

ApplyMergeRow ==
    /\ merge.pc = "call"
    /\ merge' = [merge EXCEPT !.pc = "done",
                              !.out = mergeRow(merge.state, merge.row)]
    /\ UNCHANGED <<ingestVars, upsertVars, rateVars, ctlVars, unitVars>>
    /\ UNCHANGED <<flush, controls, api, vm, stream, cov, settings>>

ViewIdle ==
    /\ FlushInit
    /\ ControlsInit
    /\ ApiInit
    /\ VmInit
    /\ StreamInit
    /\ CoverageInit
    /\ SettingsInit
    /\ MergeIdle

\* -------------------------------------------------------- specifications
CoreIdle == IngestInit /\ UpsertIdle /\ RateIdle /\ ControlIdle

Init == CoreIdle /\ UnitIdle /\ ViewIdle

Next ==
    \/ Tick
    \/ StartRun
    \/ \E s \in SYMBOLS : WorkerStart(s)
    \/ \E s \in SYMBOLS : ReturnOk(s)
    \/ \E s \in SYMBOLS : Raise(s)
    \/ \E s \in SYMBOLS : RetryCall(s)
    \/ \E s \in SYMBOLS : GiveUp(s)
    \/ InsertAll
    \/ RunSingle

Spec == Init /\ [][Next]_vars

DaemonNext ==
    \/ Tick
    \/ DaemonWake
    \/ RunSingle

SpecDaemon == Init /\ [][DaemonNext]_vars

UpsertSpecInit ==
    IngestInit /\ UpsertInit /\ RateIdle /\ ControlIdle /\ UnitIdle /\ ViewIdle

UpsertNext ==
    \/ UpsertFirst
    \/ UpsertAgain

SpecUpsert == UpsertSpecInit /\ [][UpsertNext]_vars

RateSpecInit ==
    IngestInit /\ UpsertIdle /\ RateInit /\ ControlIdle /\ UnitIdle /\ ViewIdle

RateNext ==
    \/ RateTick
    \/ \E w \in SYMBOLS : WantCall(w)
    \/ \E w \in SYMBOLS : Acquire(w)

SpecRate == RateSpecInit /\ [][RateNext]_vars

ControlSpecInit ==
    IngestInit /\ UpsertIdle /\ RateIdle /\ ControlInit /\ UnitIdle /\ ViewIdle

ControlNext ==
    \/ ClickRun
    \/ ClickPause
    \/ ClickStop
    \/ ClickResume
    \/ KeyR
    \/ KeyP
    \/ KeyS
    \/ ControlRespond

SpecControl == ControlSpecInit /\ [][ControlNext]_vars

RetrySpecInit ==
    /\ CoreIdle
    /\ RetryInit /\ TxIdle /\ FlagInit /\ PanelIdle /\ StoreInit /\ GapsIdle
    /\ ViewIdle

RetryNext ==
    \/ FetchReturns
    \/ FetchRaises
    \/ SleepThenNext
    \/ ReturnEmpty

SpecRetry == RetrySpecInit /\ [][RetryNext]_vars

TxSpecInit ==
    /\ CoreIdle
    /\ RetryIdle /\ TxInit /\ FlagInit /\ PanelIdle /\ StoreInit /\ GapsIdle
    /\ ViewIdle

TxNext ==
    \/ TxExecute
    \/ TxRaise
    \/ TxCommit

SpecTx == TxSpecInit /\ [][TxNext]_vars

CancelNext ==
    \/ Tick
    \/ ApiStart
    \/ ApiStop
    \/ StartRunWhileOn
    \/ \E s \in SYMBOLS : WorkerStart(s)
    \/ \E s \in SYMBOLS : ReturnOk(s)
    \/ \E s \in SYMBOLS : Raise(s)
    \/ \E s \in SYMBOLS : RetryCall(s)
    \/ \E s \in SYMBOLS : GiveUp(s)
    \/ InsertAll

SpecCancel == Init /\ [][CancelNext]_vars

PanelSpecInit ==
    /\ CoreIdle
    /\ RetryIdle /\ TxIdle /\ FlagInit /\ PanelInit /\ StoreInit /\ GapsIdle
    /\ ViewIdle

PanelNext ==
    \/ SetSymbols
    \/ UpdateTask
    \/ AddTask
    \/ RemoveTask
    \/ HandleStart
    \/ HandleStartResponds
    \/ SetCandlesPerSymbol
    \/ LoadSymbols
    \/ HandleSymbolSelection
    \/ StartIngestion
    \/ StartIngestionResponds

SpecPanel == PanelSpecInit /\ [][PanelNext]_vars

StoreNext ==
    \/ StoreTick
    \/ SetRows
    \/ MergeRow

SpecStore == Init /\ [][StoreNext]_vars

GapsSpecInit ==
    /\ CoreIdle
    /\ RetryIdle /\ TxIdle /\ FlagInit /\ PanelIdle /\ StoreInit /\ GapsInit
    /\ ViewIdle

SpecGaps == GapsSpecInit /\ [][ApplyFindGaps]_vars

FlushNext ==
    \/ CheckStatus
    \/ FlushDB
    \/ StopResponds
    \/ PollResponds
    \/ FlushResponds

SpecFlush == Init /\ [][FlushNext]_vars

ControlsNext ==
    \/ \E i \in PollSlots : PollSend(i)
    \/ \E i \in PollSlots : PollServe(i)
    \/ \E i \in PollSlots : PollArrives(i)
    \/ \E i \in PollSlots : PollFails(i)
    \/ Toggle
    \/ ToggleServe
    \/ ToggleArrives

SpecControls == Init /\ [][ControlsNext]_vars

FlagNext ==
    \/ \E c \in ApiClients : Post(c)
    \/ \E c \in ApiClients : Serve(c)

SpecFlag == Init /\ [][FlagNext]_vars

VmNext ==
    \/ FetchStatus
    \/ \E i \in FetchIds : FetchResolves(i)
    \/ \E i \in FetchIds : FetchFails(i)
    \/ \E i \in FetchIds : AbortedRejects(i)
    \/ VmUnmount

SpecVm == Init /\ [][VmNext]_vars

StreamNext ==
    \/ \E i \in SocketIds : SocketOpens(i)
    \/ \E i \in SocketIds : SocketMessage(i)
    \/ \E i \in SocketIds : SocketError(i)
    \/ \E i \in SocketIds : SocketCloses(i)
    \/ TimerFires
    \/ StreamUnmount

SpecStream == Init /\ [][StreamNext]_vars

CoverageNext ==
    \/ CoverageStart
    \/ CoverageStop
    \/ CoverageTick
    \/ \E i \in CoverageIds : CoverageResolves(i)
    \/ \E i \in CoverageIds : CoverageFails(i)

SpecCoverage == Init /\ [][CoverageNext]_vars

SettingsNext ==
    \/ HydrateSaved
    \/ HydrateRemote
    \/ SetThrottleMin
    \/ SetThrottleMax

SpecSettings == Init /\ [][SettingsNext]_vars

MergeSpecInit ==
    /\ CoreIdle /\ UnitIdle
    /\ FlushInit /\ ControlsInit /\ ApiInit /\ VmInit /\ StreamInit
    /\ CoverageInit /\ SettingsInit /\ MergeInit

SpecMerge == MergeSpecInit /\ [][ApplyMergeRow]_vars

\* ------------------------------------------------------------ properties
\* the stream states of the design, read off the position of fetch_one
StreamStatus(s) ==
    IF how[s] = "exhausted" THEN "FAILED"
    ELSE IF wpc[s] = "pending" THEN "PENDING"
    ELSE IF wpc[s] \in {"inflight", "sleeping"} THEN "FETCHING"
    ELSE IF runPc = "done" THEN "DONE"
    ELSE "WRITING"

\* the run states of the design, read off the position of main
RunStatus ==
    IF runPc = "idle" THEN "CREATED"
    ELSE IF runPc = "running" THEN "RUNNING"
    ELSE "COMPLETED"

\* a result the caller can tell from a successful fetch of zero rows
ReportsFailure(result) == result # <<>>

RowsWritten(s) ==
    \A i \in DOMAIN data[s] : HasKey(db, s, TF, data[s][i].ts)

\* C1: writing the same rows a second time (insert_rows or insert_all)
\* leaves the table as the first write left it and reports 0 inserted rows.
UpsertIdempotent ==
    uStep = 2 => (uDb = uFirst /\ uAdded[2] = 0)

UpsertIdempotentWitness ==
    /\ uStep = 2
    /\ uOp = "insert_all"
    /\ uAdded[1] > 0
    /\ uAdded[1] < TotalLen(uBatch, UpsertSyms)

\* C2: no persisted candle was still open when it was fetched: its bucket
\* start is below T - (T mod cadence) for the time T of its fetch.
NoTrailingBarLeak ==
    \A r \in db : r.final

\* C3: the latest persisted timestamp of a stream never decreases.
MonotonicResumption ==
    [][db' # db =>
          \A s \in SYMBOLS : \A tf \in TIMEFRAMES :
              last_ts_from_db(db', s, tf) >= last_ts_from_db(db, s, tf)]_vars

MonotonicResumptionWitness ==
    /\ runPc = "done"
    /\ \E s \in SYMBOLS :
           /\ how[s] = "ok"
           /\ since[s] > 0
           /\ last_ts_from_db(db, s, TF) > since[s]
    /\ \E k \in SYMBOLS : how[k] = "exhausted" /\ since[k] > 0

\* C4: when the run has completed and stream K failed terminally, the rows
\* of every other stream are written and K is reported as failed.
PartialFailureIsolation ==
    RunStatus = "COMPLETED" =>
        \A k \in SYMBOLS :
            StreamStatus(k) = "FAILED" =>
                /\ \A s \in SYMBOLS \ {k} :
                       /\ StreamStatus(s) \in {"DONE", "FAILED"}
                       /\ RowsWritten(s)
                /\ ReportsFailure(data[k])

\* C5 (as claimed): the run is COMPLETED only when every stream is DONE.
CompletedOnlyWhenAllDone ==
    RunStatus = "COMPLETED" =>
        \A s \in SYMBOLS : StreamStatus(s) = "DONE"

\* C5 (amended): the run is COMPLETED only when every stream is DONE or
\* FAILED, never while one is PENDING, FETCHING or WRITING.
CompletedOnlyWhenAllTerminal ==
    RunStatus = "COMPLETED" =>
        \A s \in SYMBOLS : StreamStatus(s) \in {"DONE", "FAILED"}

CompletedWithErrorsWitness ==
    /\ RunStatus = "COMPLETED"
    /\ \E s \in SYMBOLS : StreamStatus(s) = "FAILED"
    /\ \E s \in SYMBOLS : StreamStatus(s) = "DONE" /\ data[s] # <<>>

PoolSizeInvariant ==
    Cardinality(InFlight) <= MAX_CONCURRENCY

PoolSizeWitness ==
    /\ Cardinality(InFlight) = MAX_CONCURRENCY
    /\ \E s \in SYMBOLS : wpc[s] = "pending"

\* C8: after a run in which no stream failed, every closed bucket of the
\* run's window (from the stream's latest persisted bar to the start of the
\* run) is in the table.
GapCoverage ==
    (runPc = "done" /\ \A s \in SYMBOLS : how[s] = "ok") =>
        \A s \in SYMBOLS :
            since[s] > 0 =>
                \A b \in since[s]..(runStart - 1) : HasKey(db, s, TF, b)

\* C9: pause takes effect only from RUNNING, resume only from PAUSED, and
\* a STOPPED run never becomes PAUSED.
RunStateMachine ==
    [][/\ (dashboardState' = "PAUSED" /\ dashboardState # "PAUSED")
              => dashboardState = "RUNNING"
       /\ (pendingCtl # <<>> /\ Head(pendingCtl) = "resume"
              /\ dashboardState' # dashboardState)
              => dashboardState = "PAUSED"
       /\ dashboardState = "STOPPED" => dashboardState' # "PAUSED"]_vars

\* C10: what fetch_one hands over after the retry loop has run out differs
\* from what it hands over after a successful fetch of zero rows.
TerminalFailureDistinguishable ==
    \A s \in SYMBOLS :
        (wpc[s] = "done" /\ how[s] = "exhausted") => ReportsFailure(data[s])

\* C11: a fetch that raised a non-transient error has been invoked exactly
\* once, is not followed by a sleep or a second invocation, and ends with
\* an error of its own kind rather than with rows or an empty list.
NonTransientNeverRetried ==
    (retry.kind = "terminal" /\ retry.fails > 0 /\ retry.calls > 0) =>
        /\ retry.calls = 1
        /\ retry.pc = "returned"
        /\ retry.result = "error"

\* C12: fetch_with_retry never invokes the fetch more than max_retries + 1
\* times (max_retries = RetryIterations - 1); the sleep before retry i
\* (i = 0, 1, ...) lasts at least BaseDelay * 2^i; and a fetch that fails k
\* times, k <= max_retries, and then succeeds ends with the rows after
\* exactly k + 1 invocations.
BoundedRetryBackoff ==
    /\ retry.calls <= RetryIterations
    /\ \A i \in DOMAIN retry.slept : retry.slept[i] >= BaseDelay * 2^(i - 1)
    /\ (retry.pc = "returned" /\ retry.fails <= RetryIterations - 1) =>
           /\ retry.result = "rows"
           /\ retry.calls = retry.fails + 1
           /\ Len(retry.slept) = retry.fails

BoundedRetryBackoffWitness ==
    /\ retry.pc = "returned"
    /\ retry.kind = "transient"
    /\ retry.fails = 2
    /\ retry.result = "rows"
    /\ retry.calls = 3
    /\ retry.slept[1] + retry.slept[2] >= BaseDelay + 2 * BaseDelay

\* C13: while a batch write is under way, and after it has failed, other
\* connections see the table as it was before the call; after it has
\* committed, every row of the batch is in the table.
BatchAtomicity ==
    /\ tx.pc \in {"open", "failed"} => tx.table = tx.before
    /\ tx.pc = "committed" =>
           \A i \in DOMAIN tx.rows :
               HasKey(tx.table, tx.rows[i].symbol, TF, tx.rows[i].ts)

BatchAtomicityWitness ==
    /\ tx.pc = "failed"
    /\ tx.pos > 0
    /\ tx.pos < Len(tx.rows)
    /\ tx.work # tx.before
    /\ tx.op = "insert_all"

\* C14: the table never holds two rows with the same (symbol, timeframe,
\* ts).
UniquePerKey ==
    \A r1, r2 \in db :
        (r1.symbol = r2.symbol /\ r1.timeframe = r2.timeframe /\ r1.ts = r2.ts)
            => r1 = r2

\* the daemon wrote a bar while it was open, and the single-stream script
\* has since resumed from that bar: it was delivered again, now closed,
\* together with the bar after it
UniquePerKeyWitness ==
    \E r1, r2 \in db :
        /\ r1.symbol = SYMBOL /\ r2.symbol = SYMBOL
        /\ r1.timeframe = TF /\ r2.timeframe = TF
        /\ ~r1.final
        /\ r2.final
        /\ r2.ts = r1.ts + 1

\* C15: a persisted row whose bucket has elapsed is still in the table,
\* unchanged, after every step; a row that a step replaces or removes is
\* the latest row of its stream and still open.
ClosedBarsImmutable ==
    [][\A r \in db :
          \/ r \in db'
          \/ /\ r.ts + secmap(r.timeframe) > now
             /\ r.ts = last_ts_from_db(db, r.symbol, r.timeframe)
             /\ HasKey(db', r.symbol, r.timeframe, r.ts)]_vars

\* a bar written while open has closed, the daemon has ticked again and
\* later bars of the stream have been written
ClosedBarsImmutableWitness ==
    \E r \in db :
        /\ ~r.final
        /\ r.ts + secmap(r.timeframe) <= now
        /\ lastWake > r.ts
        /\ last_ts_from_db(db, r.symbol, r.timeframe) > r.ts + 1

\* C16: once ingestion has been stopped, no fetch of the run is started.
CooperativeCancellation ==
    [][\A s \in SYMBOLS :
          (wpc[s] = "pending" /\ wpc'[s] = "inflight") => running # "0"]_vars

\* C17: the window a stream's fetch asks for starts after the latest
\* persisted bar: the bar at `since` is not in the table.
DefaultWindowStart ==
    \A s \in SYMBOLS :
        (wpc[s] \in {"inflight", "sleeping"} /\ since[s] > 0) =>
            ~HasKey(db, s, TF, since[s])

\* a form in error: no symbol, or no task with a positive candle count
BlankSymbols(symbols) == \A i \in DOMAIN symbols : symbols[i] \in {"", " "}

NoValidTask(tasks) == \A i \in DOMAIN tasks : tasks[i].candles \in {"", "abc", "0"}

ConfigError ==
    IF panel.view = "IngestionPanel"
    THEN BlankSymbols(panel.symbols) \/ NoValidTask(panel.tasks)
    ELSE \/ panel.selectedSymbols \cap panel.availableSymbols = {}
         \/ panel.candlesPerSymbol \in {"", "abc", "0"}

\* C18: in a state whose form holds no symbol or no valid task, no step
\* sends a start request or switches the form to starting, and with no
\* response outstanding none records a run id.
ConfigErrorFailsSynchronously ==
    [][ConfigError =>
          /\ panel'.sent = panel.sent
          /\ panel'.pending <= panel.pending
          /\ panel'.starting => panel.starting
          /\ panel.pending = 0 =>
                 (panel'.runId = panel.runId /\ panel'.ingesting = panel.ingesting)
      ]_vars

\* a run was started and recorded, then the form was emptied and the start
\* refused
ConfigErrorWitness ==
    /\ panel.view = "IngestionPanel"
    /\ ConfigError
    /\ panel.message \in {"Please provide at least one symbol.",
                          "Please add at least one timeframe."}
    /\ panel.sent = 1
    /\ panel.pending = 0
    /\ panel.runId = 1

\* C19: lastUpdated never moves to an earlier value.
LastUpdatedMonotonic ==
    [][store'.lastUpdated >= store.lastUpdated]_vars

\* the buckets of a range [start, end)
GapBuckets(r, c) == {b \in (r.start)..(r.end - 1) : (b - r.start) % c = 0}

\* C20: the ranges find_gaps returns are in ascending order, non-empty,
\* pairwise disjoint and not adjacent, and together they hold exactly the
\* expected buckets of [start, end) that have elapsed at T and are absent
\* from storage.
FindGapsExact ==
    gaps.pc = "done" =>
        LET c == secmap(gaps.tf)
            res == gaps.result
        IN  /\ \A i \in DOMAIN res : res[i].start < res[i].end
            /\ \A i \in DOMAIN res :
                   i < Len(res) => res[i].end < res[i + 1].start
            /\ UNION {GapBuckets(res[i], c) : i \in DOMAIN res}
                   = {b \in 0..(gaps.end - 1) :
                         /\ b >= gaps.start
                         /\ b % c = 0
                         /\ b + c <= gaps.T
                         /\ b \notin gaps.present}

\* five persisted candles around a hole of three, and the open bucket
\* missing at the end: one range of three buckets
FindGapsWitness ==
    /\ gaps.pc = "done"
    /\ gaps.tf = "5m"
    /\ gaps.end = MaxGapBuckets * secmap("5m")
    /\ gaps.T = gaps.end - 1
    /\ Cardinality(gaps.present) = 5
    /\ gaps.result = <<[start |-> 2 * secmap("5m"), end |-> 5 * secmap("5m")]>>


\* the stream transitions of the design
StreamTransitions ==
    { <<"PENDING", "FETCHING">>, <<"FETCHING", "FETCHING">>,
      <<"FETCHING", "WRITING">>, <<"WRITING", "FETCHING">>,
      <<"WRITING", "DONE">>, <<"FETCHING", "FAILED">>,
      <<"WRITING", "FAILED">> }

\* main starts over: a new run with new futures
NewRun == runPc # "running" /\ runPc' = "running"

\* C21: within a run a stream moves only along PENDING -> FETCHING,
\* FETCHING -> FETCHING, FETCHING -> WRITING, WRITING -> FETCHING,
\* WRITING -> DONE and FETCHING or WRITING -> FAILED; DONE and FAILED are
\* left by no step of the run.
StreamStateMachine ==
    [][((wpc' # wpc \/ runPc' # runPc \/ how' # how) /\ ~NewRun) =>
          \A s \in SYMBOLS :
              \/ StreamStatus(s)' = StreamStatus(s)
              \/ <<StreamStatus(s), StreamStatus(s)'>> \in StreamTransitions]_vars

StreamStateMachineWitness ==
    /\ runPc = "done"
    /\ \E s, t, u \in SYMBOLS :
          /\ StreamStatus(s) = "FAILED"
          /\ StreamStatus(t) = "DONE" /\ data[t] # <<>>
          /\ StreamStatus(u) = "DONE" /\ u # t

\* the design's lookback of two batches
Lookback == 2 * LIMIT

\* C22: a run of binance_to_db_opt for a stream without data, with a
\* lookback of L buckets behind it, leaves exactly L - 1 candles in the
\* table (the L buckets of the lookback without the open one).
FirstRunBackfill ==
    [][(/\ db' # db /\ runPc' = runPc
        /\ last_ts_from_db(db, SYMBOL, TF) = 0
        /\ now >= Lookback) =>
          Cardinality({r \in db' : r.symbol = SYMBOL /\ r.timeframe = TF})
              = Lookback - 1]_vars

\* C23: a flushDB call made while ingestion is shown as running sends the
\* flush request only after the stop request was answered successfully; a
\* failed stop is followed by no flush request; a declined confirmation
\* sends no request at all.
FlushAfterStop ==
    LET log == flush.log
    IN  /\ flush.asked =>
              \A i \in DOMAIN log :
                  log[i] = "POST /api/db/flush" =>
                      \E j \in 1..(i - 1) : log[j] = "stop ok"
        /\ (\E j \in DOMAIN log : log[j] = "stop failed") =>
              \A i \in DOMAIN log : log[i] # "POST /api/db/flush"
        /\ flush.answer = "no" => log = <<>>

FlushAfterStopWitness ==
    /\ flush.asked
    /\ flush.answer = "yes"
    /\ flush.attempt = STATUS_POLL_ATTEMPTS
    /\ flush.log = <<"POST /api/ingestion/stop", "stop ok", "POST /api/db/flush">>
    /\ flush.msg = "DB flushed"

\* C24: once the API has accepted a toggle, the displayed state does not
\* flip back from the toggled value (until the next toggle): no poll
\* response overwrites it with a reading from before the toggle.
NoFlicker ==
    [][(/\ controls.pc \in {"accepted", "confirmed"}
        /\ controls'.pc \in {"accepted", "confirmed"}
        /\ controls.running = controls.next) =>
          controls'.running = controls.next]_vars

\* C25: a start served while the flag is set and a stop served while it is
\* clear change nothing and publish nothing; any other request writes the
\* flag and publishes one message carrying the new value; the messages on
\* ingestion_state alternate between running = true and running = false and
\* the last one equals the stored flag.
ControlFlagAlternates ==
    [][LET chan == api'.chan
       IN  /\ \A i \in 1..(Len(chan) - 1) : chan[i].running # chan[i + 1].running
           /\ chan # <<>> => (chan[Len(chan)].running <=> running' = "1")
           /\ \A c \in ApiClients :
                 (api.req[c] # "none" /\ api'.req[c] = "none") =>
                     IF (api.req[c] = "start") <=> (running = "1")
                     THEN running' = running /\ chan = api.chan
                     ELSE /\ running' = IF api.req[c] = "start" THEN "1" ELSE "0"
                          /\ chan = Append(api.chan,
                                           [running |-> api.req[c] = "start"])]_vars

ControlFlagWitness ==
    /\ Len(api.chan) = MaxPublished
    /\ \E c, d \in ApiClients :
          /\ api.resp[c] = "already running"
          /\ api.resp[d] = "already stopped"

\* C26: while the request started last is in flight, abortRef points at it
\* and, if it is not silent, isLoading is true, whatever happens to the
\* requests it aborted.
LatestFetchUndisturbed ==
    (vm.started > 0 /\ vm.reqs[vm.started] = "inflight") =>
        /\ vm.abortRef = vm.started
        /\ ~vm.silent[vm.started] => vm.isLoading

\* WebSockets that are open or connecting
LiveSockets == {i \in SocketIds : stream.socks[i] \in {"connecting", "open"}}

\* C27: at most one status WebSocket is open or connecting and at most one
\* reconnect timeout is pending, whatever events the sockets deliver.
SingleStatusStream ==
    /\ Cardinality(LiveSockets) <= 1
    /\ stream.timers <= 1

\* C28: at most one interval timer exists, and the rows of the snapshot are
\* never replaced by the rows of a fetchOnce started earlier.
CoveragePolling ==
    [][/\ cov'.intervals <= 1
       /\ cov'.snap.rows >= cov.snap.rows]_vars

\* C29: the stored settings satisfy 1 <= interval <= 60, 1 <= threads <= 16,
\* throttle_min >= 0, throttle_max >= throttle_min + 10, retries >= 0,
\* backoff_ms >= 0 and timeframes is not empty.
SettingsInvariant ==
    LET s == settings.stored
    IN  /\ 1 <= s.interval /\ s.interval <= 60
        /\ 1 <= s.threads /\ s.threads <= 16
        /\ s.throttle_min >= 0
        /\ s.throttle_max >= s.throttle_min + 10
        /\ s.retries >= 0
        /\ s.backoff_ms >= 0
        /\ s.timeframes # <<>>

\* the timeframe keys the rows carry
MergedKeys(rows) == UNION {DOMAIN rows[i].timeframes : i \in DOMAIN rows}

\* mergeRow as an upsert by pair, timeframeKeys listing every key except
\* the dropped ones
UpsertByPair(dropped) ==
    LET before == merge.state.rows
        after == merge.out.rows
        row == merge.row
        keys == merge.out.timeframeKeys
    IN  /\ \A i \in DOMAIN before :
              before[i].pair # row.pair =>
                  i \in DOMAIN after /\ after[i] = before[i]
        /\ Cardinality({i \in DOMAIN after : after[i].pair = row.pair}) = 1
        /\ Len(after) =
              Cardinality({before[i].pair : i \in DOMAIN before} \cup {row.pair})
        /\ \A i \in DOMAIN after :
              after[i].pair = row.pair =>
                  LET old == {j \in DOMAIN before : before[j].pair = row.pair}
                      tf == after[i].timeframes
                  IN  /\ DOMAIN tf = DOMAIN row.timeframes
                             \cup UNION {DOMAIN before[j].timeframes : j \in old}
                      /\ \A k \in DOMAIN row.timeframes :
                             tf[k] = row.timeframes[k]
                      /\ \A j \in old :
                             \A k \in DOMAIN before[j].timeframes
                                        \ DOMAIN row.timeframes :
                                 tf[k] = before[j].timeframes[k]
        /\ Range(keys) = MergedKeys(after) \ dropped
        /\ \A i, j \in DOMAIN keys : i < j => SortsBefore(keys[i], keys[j])

\* C30 as stated: mergeRow leaves the rows of other pairs unchanged and in
\* place, yields exactly one row for row.pair whose timeframes are the
\* previous ones overridden key by key by the new ones, and timeframeKeys is
\* the sorted duplicate-free union of all rows' timeframe keys.
MergeRowUpsert ==
    merge.pc = "done" => UpsertByPair({})

\* C30, amended: as above, timeframeKeys being the sorted duplicate-free
\* union of the rows' non-empty timeframe keys.
MergeRowUpsertNamedKeys ==
    merge.pc = "done" => UpsertByPair({""})

MergeRowUpsertWitness ==
    /\ merge.pc = "done"
    /\ Len(merge.state.rows) = 2
    /\ merge.state.rows[1].pair = merge.row.pair
    /\ merge.state.rows[1].timeframes = ("1h" :> 1) @@ ("5m" :> 1)
    /\ merge.row.timeframes = ("5m" :> 2)
    /\ merge.state.rows[2].timeframes = ("" :> 1)
    /\ merge.out.rows[1].timeframes = ("1h" :> 1) @@ ("5m" :> 2)
    /\ merge.out.timeframeKeys = <<"5m", "1h">>
====
